---- MODULE Spec2Model ----
(***************************************************************************)
(* terminal_snake: the game loop of src/main.rs (Game::run) as a state     *)
(* machine.  One loop iteration is: drain the key events (pc = "poll"),    *)
(* tick if due (pc = "tick"), apple consumption (pc = "apple"), render     *)
(* (pc = "draw").  Cells are pairs <<x, y>> of u16 coordinates.            *)
(***************************************************************************)
EXTENDS Integers, Sequences, FiniteSets, TLC

VARIABLES
    snake,              \* Game.snake: Vec<(u16, u16)>, head first
    snake_direction,    \* Game.snake_direction
    apple_position,     \* Game.apple_position
    snake_move_time,    \* Game.snake_move_time (ms)
    pc,                 \* position of the loop body: poll, tick, apple, draw, done
    status,             \* Running, or why run() ended
    tick_direction,     \* history: heading used by the most recent due tick
    grown,              \* history: last cell appended by consumption, no tick since
    eaten,              \* history: number of apples consumed
    popped              \* history: the cell this iteration's tick removed, or <<>>

vars == <<snake, snake_direction, apple_position, snake_move_time,
          pc, status, tick_direction, grown, eaten, popped>>

game == <<snake, snake_direction, apple_position, snake_move_time>>

(***************************************************************************)
(* Bounds of the model.  main.rs:42 fixes the board side at 20; the same   *)
(* code is checked here on a smaller square board.  Consumption is         *)
(* explored up to MaxLen snake cells under free play (Spec), up to         *)
(* MaxRouteLen cells in the long game (SpecLong) and up to MaxFullLen      *)
(* cells, the whole board, on the full route (SpecFull).  Under SpecFair   *)
(* the player steers while the snake has fewer than MaxKeyLen cells.       *)
(***************************************************************************)
BOARD_SIZE == 5

MaxLen == 5

MaxRouteLen == 18

MaxFullLen == 25

MaxKeyLen == 3

U16_MAX == 65535

INITIAL_MOVE_TIME == 200

SPEED_STEP == 10

MIN_MOVE_TIME == 50

Directions == {"Up", "Down", "Left", "Right"}

\* Direction::get_vec2
get_vec2(d) ==
    CASE d = "Up"    -> <<0, -1>>
      [] d = "Down"  -> <<0, 1>>
      [] d = "Left"  -> <<-1, 0>>
      [] d = "Right" -> <<1, 0>>

\* Direction::opposite
opposite(d) ==
    CASE d = "Up"    -> "Down"
      [] d = "Down"  -> "Up"
      [] d = "Left"  -> "Right"
      [] d = "Right" -> "Left"

\* u16::saturating_add_signed
saturating_add_signed(a, d) ==
    IF a + d < 0 THEN 0
    ELSE IF a + d > U16_MAX THEN U16_MAX
    ELSE a + d

offset_cell_unmoved(c, v) == c

\* (c.0.saturating_add_signed(v.0), c.1.saturating_add_signed(v.1))
offset_cell(c, v) ==
    <<saturating_add_signed(c[1], v[1]), saturating_add_signed(c[2], v[2])>>

\* Vec::contains
contains(s, c) == \E i \in 1..Len(s) : s[i] = c

\* Vec::pop: the sequence without its last element
pop_front(s) == SubSeq(s, 2, Len(s))

pop(s) == SubSeq(s, 1, Len(s) - 1)

\* mutant: the turn test looks at the heading only, whatever the length
is_valid_turn_unchecked(d) == d \in Directions

is_valid_turn_heading_only(d) == opposite(snake_direction) # d

\* Game::is_valid_turn
is_valid_turn(d) ==
    IF Len(snake) > 1
    THEN offset_cell(snake[1], get_vec2(d)) # snake[2]
    ELSE opposite(snake_direction) # d

\* mutant: the border test without the high borders
hits_border_low_only(head, v) ==
    \/ (head[1] = 0 /\ v[1] < 0)
    \/ (head[2] = 0 /\ v[2] < 0)

\* mutant: the border test without the low borders
hits_border_high_only(head, v) ==
    \/ (head[1] = BOARD_SIZE - 1 /\ v[1] > 0)
    \/ (head[2] = BOARD_SIZE - 1 /\ v[2] > 0)

\* the border test of the tick
hits_border(head, v) ==
    \/ (head[1] = 0 /\ v[1] < 0)
    \/ (head[2] = 0 /\ v[2] < 0)
    \/ (head[1] = BOARD_SIZE - 1 /\ v[1] > 0)
    \/ (head[2] = BOARD_SIZE - 1 /\ v[2] > 0)

\* mutant: the self test runs before the tail is removed
hits_itself_before_pop(s, c) == contains(s, c)

\* self.snake.pop(); self.snake.contains(&next_head)
hits_itself(s, c) == contains(pop(s), c)

\* tail_direction of the consumption step
tail_direction(s, d) ==
    IF Len(s) > 1
    THEN <<s[Len(s)][1] - s[Len(s) - 1][1], s[Len(s)][2] - s[Len(s) - 1][2]>>
    ELSE <<-get_vec2(d)[1], -get_vec2(d)[2]>>

grow_nothing(s, d) == s

\* the snake after self.snake.push(tail + tail_direction)
grow(s, d) == Append(s, offset_cell(s[Len(s)], tail_direction(s, d)))

\* the cells in the order of the nested loops: x outer, y inner
board_cells ==
    [i \in 1..(BOARD_SIZE * BOARD_SIZE) |->
        <<(i - 1) \div BOARD_SIZE, (i - 1) % BOARD_SIZE>>]

\* mutant: the free cells are collected before the new tail cell is pushed
possible_positions_before_push(s) ==
    LET RECURSIVE scan(_)
        scan(i) ==
            IF i = 0 THEN <<>>
            ELSE IF ~contains(pop(s), board_cells[i])
                 THEN Append(scan(i - 1), board_cells[i])
                 ELSE scan(i - 1)
    IN scan(Len(board_cells))

\* possible_positions: the board cells the snake does not contain, in loop order
possible_positions(s) ==
    LET RECURSIVE scan(_)
        scan(i) ==
            IF i = 0 THEN <<>>
            ELSE IF ~contains(s, board_cells[i])
                 THEN Append(scan(i - 1), board_cells[i])
                 ELSE scan(i - 1)
    IN scan(Len(board_cells))

\* mutant: the choice never takes the last candidate
choose_not_last(v) == {v[i] : i \in 1..(Len(v) - 1)}

\* IndexedRandom::choose: the values a random pick from v can yield
choose(v) == {v[i] : i \in 1..Len(v)}

\* mutant: the interval shrinks without the floor
speed_up_no_floor(t) == t - SPEED_STEP

\* (self.snake_move_time - 10).max(50)
speed_up(t) == IF t - SPEED_STEP > MIN_MOVE_TIME THEN t - SPEED_STEP ELSE MIN_MOVE_TIME

\* the key codes the match distinguishes; "other" is any other key
Keys == {"Up", "w", "Down", "s", "Left", "a", "Right", "d", "q", "other"}

DirectionKeys == Keys \ {"q", "other"}

key_direction(k) ==
    CASE k \in {"Up", "w"}    -> "Up"
      [] k \in {"Down", "s"}  -> "Down"
      [] k \in {"Left", "a"}  -> "Left"
      [] k \in {"Right", "d"} -> "Right"

\* the surface sizes offered to render: around the two thresholds of the assert
Widths == {(BOARD_SIZE + 2) * 2 - 1, (BOARD_SIZE + 2) * 2, (BOARD_SIZE + 2) * 2 + 1}

Heights == {BOARD_SIZE + 1, BOARD_SIZE + 2, BOARD_SIZE + 3}

\* the assert! of Widget::render
area_accepted(w, h) == w > (BOARD_SIZE + 2) * 2 /\ h > BOARD_SIZE + 2

\* Game::default
Init ==
    /\ snake = << <<BOARD_SIZE \div 2, BOARD_SIZE \div 2>> >>
    /\ snake_direction = "Right"
    /\ apple_position = <<BOARD_SIZE \div 2, BOARD_SIZE \div 3>>
    /\ snake_move_time = INITIAL_MOVE_TIME
    /\ pc = "poll"
    /\ status = "Running"
    /\ tick_direction = "None"
    /\ grown = FALSE
    /\ eaten = 0
    /\ popped = <<>>

Stop(reason) == pc' = "done" /\ status' = reason

run_result_read_unwrapped ==
    CASE status \in {"Quit", "Wall", "Self"}                 -> "Ok"
      [] status \in {"DrawError"}                           -> "Err"
      [] status \in {"NoFreeCell", "TooSmall", "ReadError"} -> "Panic"
      [] OTHER                                              -> "None"

\* how run() ends: the value it returns to main (Ok(()) on the breaks, the
\* error of a ? operator), or the panic of unwrap() / assert! unwinding it
run_result ==
    CASE status \in {"Quit", "Wall", "Self"}    -> "Ok"
      [] status \in {"ReadError", "DrawError"} -> "Err"
      [] status \in {"NoFreeCell", "TooSmall"} -> "Panic"
      [] OTHER                                 -> "None"

\* a press of a direction key is read: the heading changes if the turn is valid
DirectionKey(k) ==
    /\ pc = "poll" /\ status = "Running"
    /\ k \in DirectionKeys
    /\ snake_direction' =
          IF is_valid_turn(key_direction(k)) THEN key_direction(k) ELSE snake_direction
    /\ UNCHANGED <<snake, apple_position, snake_move_time, pc, status,
                   tick_direction, grown, eaten, popped>>

QuitKey_ends_drain_only ==
    /\ pc = "poll" /\ status = "Running"
    /\ pc' = "tick"
    /\ UNCHANGED <<game, status, tick_direction, grown, eaten, popped>>

\* a press of q is read: break 'render Ok(())
QuitKey ==
    /\ pc = "poll" /\ status = "Running"
    /\ Stop("Quit")
    /\ UNCHANGED <<game, tick_direction, grown, eaten, popped>>

\* any other key press, or an event that is not a key press, is read
OtherEvent ==
    /\ pc = "poll" /\ status = "Running"
    /\ UNCHANGED <<game, pc, status, tick_direction, grown, eaten, popped>>

\* event::read()? fails
ReadError ==
    /\ pc = "poll" /\ status = "Running"
    /\ Stop("ReadError")
    /\ UNCHANGED <<game, tick_direction, grown, eaten, popped>>

PollEmpty_skips_tick ==
    /\ pc = "poll" /\ status = "Running"
    /\ pc' = "apple"
    /\ UNCHANGED <<game, status, tick_direction, grown, eaten, popped>>

\* event::poll reports no event (or fails): the drain loop ends
PollEmpty ==
    /\ pc = "poll" /\ status = "Running"
    /\ pc' = "tick"
    /\ UNCHANGED <<game, status, tick_direction, grown, eaten, popped>>

\* now.elapsed() is not above the move interval
TickNotDue ==
    /\ pc = "tick" /\ status = "Running"
    /\ pc' = "apple"
    /\ UNCHANGED <<game, status, tick_direction, grown, eaten, popped>>

\* the due tick: border test, pop, self test, insert
Tick ==
    /\ pc = "tick" /\ status = "Running"
    /\ LET direction == get_vec2(snake_direction)
           head == snake[1]
           next_head == offset_cell(head, direction)
       IN  /\ tick_direction' = snake_direction
           /\ IF hits_border(head, direction)
              THEN /\ Stop("Wall")
                   /\ UNCHANGED <<snake, grown, popped>>
              ELSE IF hits_itself(snake, next_head)
              THEN /\ Stop("Self")
                   /\ snake' = pop(snake)
                   /\ grown' = FALSE
                   /\ popped' = snake[Len(snake)]
              ELSE /\ snake' = <<next_head>> \o pop(snake)
                   /\ pc' = "apple"
                   /\ grown' = FALSE
                   /\ popped' = snake[Len(snake)]
                   /\ UNCHANGED status
    /\ UNCHANGED <<snake_direction, apple_position, snake_move_time, eaten>>

NoApple_untested ==
    /\ pc = "apple" /\ status = "Running"
    /\ pc' = "draw"
    /\ UNCHANGED <<game, status, tick_direction, grown, eaten, popped>>

\* the head is not on the apple
NoApple ==
    /\ pc = "apple" /\ status = "Running"
    /\ snake[1] # apple_position
    /\ pc' = "draw"
    /\ UNCHANGED <<game, status, tick_direction, grown, eaten, popped>>

\* the head is on the apple: grow, place a new apple, speed up
\* (explored while the snake has fewer than limit cells)
ConsumeApple(limit) ==
    /\ pc = "apple" /\ status = "Running"
    /\ snake[1] = apple_position
    /\ Len(snake) < limit
    /\ LET longer == grow(snake, snake_direction)
           free == possible_positions(longer)
       IN  /\ snake' = longer
           /\ grown' = TRUE
           /\ IF Len(free) = 0
              THEN /\ Stop("NoFreeCell")
                   /\ UNCHANGED <<apple_position, snake_move_time, eaten>>
              ELSE /\ apple_position' \in choose(free)
                   /\ snake_move_time' = speed_up(snake_move_time)
                   /\ eaten' = eaten + 1
                   /\ pc' = "draw"
                   /\ UNCHANGED status
    /\ UNCHANGED <<snake_direction, tick_direction, popped>>

EatApple == ConsumeApple(MaxLen)

\* Widget::render on a surface of w columns and h rows: the assert, then the
\* frame is written
render(w, h) ==
    /\ pc = "draw" /\ status = "Running"
    /\ IF area_accepted(w, h)
       THEN pc' = "poll" /\ UNCHANGED status
       ELSE Stop("TooSmall")
    /\ popped' = <<>>
    /\ UNCHANGED <<game, tick_direction, grown, eaten>>

\* terminal.draw: the frame's area is whatever size the terminal has
Draw == \E w \in Widths, h \in Heights : render(w, h)

\* terminal.draw(..)? fails
DrawError ==
    /\ pc = "draw" /\ status = "Running"
    /\ Stop("DrawError")
    /\ UNCHANGED <<game, tick_direction, grown, eaten, popped>>

Next ==
    \/ \E k \in DirectionKeys : DirectionKey(k)
    \/ QuitKey
    \/ OtherEvent
    \/ ReadError
    \/ PollEmpty
    \/ TickNotDue
    \/ Tick
    \/ NoApple
    \/ EatApple
    \/ Draw
    \/ DrawError

Spec == Init /\ [][Next]_vars

(***************************************************************************)
(* The long game.  The same loop with the player steering along a fixed    *)
(* closed route (row 0 leftwards, then the columns down and up in turn)    *)
(* and always pressing the key before the drain ends; the apple placement  *)
(* stays free.  The snake then stays on the route, so that snakes of up to *)
(* MaxRouteLen cells are explored.                                         *)
(***************************************************************************)
route(c) ==
    IF c[2] = 0 THEN (IF c[1] > 0 THEN "Left" ELSE "Down")
    ELSE IF c[1] = BOARD_SIZE - 1 THEN "Up"
    ELSE IF c[1] % 2 = 0 THEN (IF c[2] < BOARD_SIZE - 1 THEN "Down" ELSE "Right")
    ELSE (IF c[2] > 1 THEN "Up" ELSE "Right")

\* a press of the direction key of the route
RouteKey ==
    \E k \in DirectionKeys :
        /\ key_direction(k) = route(snake[1])
        /\ DirectionKey(k)

\* the drain ends once the heading is the route's
RoutePollEmpty == snake_direction = route(snake[1]) /\ PollEmpty

RouteEatApple == ConsumeApple(MaxRouteLen)

NextLong ==
    \/ RouteKey
    \/ QuitKey
    \/ OtherEvent
    \/ ReadError
    \/ RoutePollEmpty
    \/ TickNotDue
    \/ Tick
    \/ NoApple
    \/ RouteEatApple
    \/ Draw
    \/ DrawError

SpecLong == Init /\ [][NextLong]_vars

(***************************************************************************)
(* The full board.  The player steers along a closed route through every   *)
(* cell but the corner <<BOARD_SIZE - 1, 0>> (row 0 leftwards, the columns *)
(* down and up in turn, the last two columns in a zigzag back up) and      *)
(* takes that corner in passing, instead of the cell left of it, when the  *)
(* apple lies there.  Every apple can be reached, so the snake grows until *)
(* it and the new tail cell cover the board.                               *)
(***************************************************************************)
full_route(c) ==
    IF c[2] = 0 THEN (IF c[1] > 0 THEN "Left" ELSE "Down")
    ELSE IF c[1] < BOARD_SIZE - 2
    THEN IF c[1] % 2 = 0
         THEN (IF c[2] < BOARD_SIZE - 1 THEN "Down" ELSE "Right")
         ELSE (IF c[2] > 1 THEN "Up" ELSE "Right")
    ELSE IF c[1] = BOARD_SIZE - 2
    THEN (IF (BOARD_SIZE - 1 - c[2]) % 2 = 0 THEN "Right" ELSE "Up")
    ELSE IF (BOARD_SIZE - 1 - c[2]) % 2 = 0
              \/ (c[2] = 1 /\ apple_position = <<BOARD_SIZE - 1, 0>>)
         THEN "Up"
         ELSE "Left"

\* a press of the direction key of the full route
FullRouteKey ==
    \E k \in DirectionKeys :
        /\ key_direction(k) = full_route(snake[1])
        /\ DirectionKey(k)

\* the drain ends once the heading is the full route's
FullRoutePollEmpty == snake_direction = full_route(snake[1]) /\ PollEmpty

FullRouteEatApple == ConsumeApple(MaxFullLen)

NextFull ==
    \/ FullRouteKey
    \/ QuitKey
    \/ OtherEvent
    \/ ReadError
    \/ FullRoutePollEmpty
    \/ TickNotDue
    \/ Tick
    \/ NoApple
    \/ FullRouteEatApple
    \/ Draw
    \/ DrawError

SpecFull == Init /\ [][NextFull]_vars

(***************************************************************************)
(* The player who stops steering.  Direction keys are pressed only while   *)
(* the snake has fewer than MaxKeyLen cells; from then on the heading is   *)
(* fixed.  A straight run crosses at most BOARD_SIZE - 1 cells, so the     *)
(* limit on consumption is never met.  The loop keeps going round: the     *)
(* drain ends, the consumption test and the draw are carried out, and,     *)
(* the clock running on from one iteration to the next, a tick that is     *)
(* tested again and again is due in the end.                               *)
(***************************************************************************)
SteeringKey ==
    \E k \in DirectionKeys :
        /\ Len(snake) < MaxKeyLen
        /\ DirectionKey(k)

StraightEatApple == ConsumeApple(MaxKeyLen + BOARD_SIZE)

NextFair ==
    \/ SteeringKey
    \/ QuitKey
    \/ OtherEvent
    \/ ReadError
    \/ PollEmpty
    \/ TickNotDue
    \/ Tick
    \/ NoApple
    \/ StraightEatApple
    \/ Draw
    \/ DrawError

Fairness ==
    /\ WF_vars(PollEmpty)
    /\ SF_vars(Tick)
    /\ WF_vars(NoApple \/ StraightEatApple)
    /\ WF_vars(Draw \/ DrawError)

SpecFair == Init /\ [][NextFair]_vars /\ Fairness

(***************************************************************************)
(* Vocabulary of the properties.                                           *)
(***************************************************************************)
OnBoard(c) == c[1] \in 0..(BOARD_SIZE - 1) /\ c[2] \in 0..(BOARD_SIZE - 1)

BoardSet == (0..(BOARD_SIZE - 1)) \X (0..(BOARD_SIZE - 1))

\* plain (unclamped) vector addition on cells
Plus(c, v) == <<c[1] + v[1], c[2] + v[2]>>

Abs(n) == IF n < 0 THEN -n ELSE n

Adjacent(a, b) == Abs(a[1] - b[1]) + Abs(a[2] - b[2]) = 1

\* the start of a loop iteration: the drain and the tick have not acted yet
IterationStart == status = "Running" /\ pc \in {"poll", "tick"}

AtRender == status = "Running" /\ pc = "draw"

\* this iteration's tick has moved the snake
JustTicked == status = "Running" /\ pc = "apple" /\ popped # <<>>

\* C1: at the start of every loop iteration no two entries of the snake are
\* the same cell.
C1_NoDuplicateCells ==
    IterationStart =>
        \A i, j \in 1..Len(snake) : i # j => snake[i] # snake[j]

\* C2: at every iteration boundary and render the snake has a cell, the head
\* is on the board, and every cell is on the board except possibly the last
\* one while it is the cell consumption appended and no tick has fired since;
\* a completed tick leaves every cell on the board.
C2_CellsOnBoard ==
    (IterationStart \/ AtRender \/ JustTicked) =>
        /\ Len(snake) >= 1
        /\ OnBoard(snake[1])
        /\ \A i \in 1..(Len(snake) - 1) : OnBoard(snake[i])
        /\ ~OnBoard(snake[Len(snake)]) => (grown /\ ~JustTicked)

\* C2 witness: a render with the just-appended cell off the board.
C2_Witness ==
    /\ AtRender
    /\ grown
    /\ ~OnBoard(snake[Len(snake)])
    /\ \A i \in 1..(Len(snake) - 1) : OnBoard(snake[i])

\* C3: at the start of every loop iteration consecutive snake cells are
\* orthogonally adjacent.
C3_ConsecutiveAdjacent ==
    IterationStart =>
        \A i \in 1..(Len(snake) - 1) : Adjacent(snake[i], snake[i + 1])

\* the apple step is about to consume: the head is on the apple
AboutToEat ==
    /\ status = "Running" /\ pc = "apple"
    /\ snake[1] = apple_position
    /\ Len(snake) < MaxLen

\* C4: every apple relocation chooses a board cell that the snake, as it is
\* after growth (the appended cell included), does not occupy, and every
\* board cell the grown snake does not occupy is a possible choice.
C4_AppleOnFreeCell ==
    /\ [][apple_position' # apple_position =>
            /\ OnBoard(apple_position')
            /\ \A i \in 1..Len(snake') : snake'[i] # apple_position'
            /\ Len(snake') = Len(snake) + 1]_vars
    /\ [](AboutToEat =>
            LET longer == grow(snake, snake_direction)
            IN  choose(possible_positions(longer)) =
                    {c \in BoardSet : \A i \in 1..Len(longer) : longer[i] # c})

\* C4 witness: an apple was relocated while the appended cell was on the
\* board and next to the chosen cell, so the appended cell itself had to be
\* excluded.
C4_Witness ==
    /\ AtRender
    /\ grown
    /\ OnBoard(snake[Len(snake)])
    /\ \A i \in 1..(Len(snake) - 1) : snake[i] # snake[Len(snake)]
    /\ Adjacent(apple_position, snake[Len(snake)])

\* C5: the heading a tick uses is never the exact opposite of the heading the
\* previous tick used, whatever keys were drained in between and whatever the
\* snake's length.
C5_NoInstantReversal ==
    [][(Tick /\ tick_direction # "None") =>
            snake_direction # opposite(tick_direction)]_vars

\* the key presses of the match, with the direction each requests
KeyRequests ==
    { <<"Up", "Up">>, <<"w", "Up">>, <<"Down", "Down">>, <<"s", "Down">>,
      <<"Left", "Left">>, <<"a", "Left">>, <<"Right", "Right">>, <<"d", "Right">> }

\* is_valid_turn as the specification words it, with plain vector addition
ValidTurn(requested) ==
    IF Len(snake) > 1
    THEN Plus(snake[1], get_vec2(requested)) # snake[2]
    ELSE requested # opposite(snake_direction)

\* C6: a direction key press sets the heading to the requested direction
\* exactly when the turn is valid, changes nothing else, and changes nothing at
\* all when the turn is not valid.
C6_KeySetsHeadingIffValid ==
    [][\A r \in KeyRequests :
            DirectionKey(r[1]) =>
                /\ ValidTurn(r[2]) => snake_direction' = r[2]
                /\ ~ValidTurn(r[2]) => snake_direction' = snake_direction
                /\ UNCHANGED <<snake, apple_position, snake_move_time, pc, status>>]_vars

\* C6 witness: on a snake with a neck and the head on the low border, where
\* the clamped sum differs from the plain one, a key press has changed the
\* heading since the tick, and the turn back onto the neck is not valid.
C6_Witness ==
    /\ status = "Running" /\ pc = "poll"
    /\ Len(snake) > 1
    /\ snake[1][1] = 0
    /\ tick_direction = "Left"
    /\ snake_direction \in {"Up", "Down"}
    /\ ~ValidTurn("Right")

\* the growth direction as the specification words it
GrowthDirection ==
    IF Len(snake) >= 2
    THEN <<snake[Len(snake)][1] - snake[Len(snake) - 1][1],
           snake[Len(snake)][2] - snake[Len(snake) - 1][2]>>
    ELSE <<-get_vec2(snake_direction)[1], -get_vec2(snake_direction)[2]>>

\* C7: consumption appends exactly one cell, at old tail + growth direction;
\* the earlier cells and the heading are unchanged.
C7_GrowthCell ==
    [][Len(snake') > Len(snake) =>
            /\ snake' = Append(snake, Plus(snake[Len(snake)], GrowthDirection))
            /\ snake_direction' = snake_direction]_vars

Max(a, b) == IF a > b THEN a ELSE b

\* C8: the move interval starts at 200, a consumption changes it from v to
\* max(50, v - 10), nothing else changes it, it is never below 50, and once it
\* is 50 it stays 50.
C8_MoveInterval ==
    /\ snake_move_time = 200
    /\ [][/\ apple_position' # apple_position =>
                snake_move_time' = Max(50, snake_move_time - 10)
          /\ apple_position' = apple_position =>
                snake_move_time' = snake_move_time
          /\ snake_move_time = 50 => snake_move_time' = 50]_vars
    /\ [](snake_move_time >= 50)

\* C8 witness: an apple was consumed while the interval was already 50.
C8_Witness ==
    /\ snake_move_time = 50
    /\ eaten >= 16
    /\ Len(snake) = eaten + 1

\* C9: on a due tick with the head on a border and the heading pointing
\* outward the run ends with the game unchanged; on every other due tick the
\* wall check does not end the run.
C9_WallCollision ==
    [][Tick =>
            IF ~OnBoard(Plus(snake[1], get_vec2(snake_direction)))
            THEN status' = "Wall" /\ pc' = "done" /\ UNCHANGED game
            ELSE status' # "Wall"]_vars

\* C9 witness: a run ended by the wall with the head on the low border.
C9_Witness ==
    /\ status = "Wall"
    /\ snake[1][2] = 0
    /\ snake_direction = "Up"
    /\ Len(snake) > 1

\* C10: a due tick that passes the wall check ends the run exactly when the
\* candidate head is a cell of the snake without its last cell.
C10_SelfCollision ==
    [][(Tick /\ status' # "Wall") =>
            LET candidate == Plus(snake[1], get_vec2(snake_direction))
            IN  (status' = "Self") <=>
                    (\E i \in 1..(Len(snake) - 1) : snake[i] = candidate)]_vars

\* C10 witness: the head moved into the cell the tail vacated and the run
\* goes on.
C10_Witness ==
    /\ JustTicked
    /\ Len(snake) >= 4
    /\ popped = snake[1]

\* C11: a due tick whose candidate head (head plus heading vector) is on the
\* board and is not a cell of the snake without its last cell keeps the run
\* going and makes the snake the candidate head followed by the old snake
\* without its last cell; length, heading, apple and move interval are kept.
C11_TickMoves ==
    [][Tick =>
            LET candidate == Plus(snake[1], get_vec2(snake_direction))
            IN  (/\ OnBoard(candidate)
                 /\ \A i \in 1..(Len(snake) - 1) : snake[i] # candidate)
                =>  /\ status' = "Running"
                    /\ snake' = <<candidate>> \o SubSeq(snake, 1, Len(snake) - 1)
                    /\ Len(snake') = Len(snake)
                    /\ UNCHANGED <<snake_direction, apple_position,
                                   snake_move_time>>]_vars

\* C11 witness: a tick has moved a snake of three or more cells one cell on,
\* the old head now being the neck and the removed cell lying off the snake.
C11_Witness ==
    /\ JustTicked
    /\ Len(snake) >= 3
    /\ snake[1] = Plus(snake[2], get_vec2(tick_direction))
    /\ \A i \in 1..Len(snake) : snake[i] # popped

\* C12: a consumption after which the snake covers every cell of the board
\* ends the run with an error value returned by run.
C12_FullBoardIsError ==
    [][(FullRouteEatApple /\ \A c \in BoardSet : contains(snake', c))
            => run_result' = "Err"]_vars

\* C13: render accepts a surface exactly when it has at least
\* (BOARD_SIZE + 2) * 2 columns and at least BOARD_SIZE + 2 rows, and ends the
\* run fatally exactly when it is smaller in some dimension.
C13_RenderMinimum ==
    [][\A w \in Widths, h \in Heights :
            render(w, h) =>
                IF w >= (BOARD_SIZE + 2) * 2 /\ h >= BOARD_SIZE + 2
                THEN status' = "Running" /\ pc' = "poll"
                ELSE status' = "TooSmall" /\ pc' = "done"]_vars

\* C14: a press of q ends the run at once with the success result and the
\* game as it was; after it no step happens any more: no key is applied, no
\* tick, no consumption, no render.
C14_QuitEndsRun ==
    /\ [][QuitKey =>
            /\ status' = "Quit" /\ pc' = "done"
            /\ run_result' = "Ok"
            /\ UNCHANGED game]_vars
    /\ [][status = "Quit" => UNCHANGED vars]_vars

\* C14 witness: q was pressed in a drain that had already applied a turn
\* since the last tick.
C14_Witness ==
    /\ status = "Quit" /\ pc = "done"
    /\ Len(snake) >= 2
    /\ tick_direction # "None"
    /\ snake_direction # tick_direction

\* C15: within an iteration the steps follow one another in the order drain,
\* tick test, apple consumption test, render, and the render leads to the
\* next drain; a tick that ends the run by a wall or self collision is the
\* last step of the run; once the run is stopped nothing changes any more.
C15_StepOrder ==
    /\ [][(pc' # pc /\ status' = "Running") =>
            \/ pc = "poll"  /\ PollEmpty /\ pc' = "tick"
            \/ pc = "tick"  /\ (Tick \/ TickNotDue) /\ pc' = "apple"
            \/ pc = "apple" /\ (NoApple \/ ConsumeApple(Len(snake) + 1))
                            /\ pc' = "draw"
            \/ pc = "draw"  /\ Draw /\ pc' = "poll"]_vars
    /\ [][(Tick /\ status' \in {"Wall", "Self"}) =>
            pc' = "done" /\ apple_position' = apple_position
                        /\ Len(snake') <= Len(snake)]_vars
    /\ [][status # "Running" => UNCHANGED vars]_vars

\* C15 witness: a tick has ended the run by a self collision.
C15_Witness ==
    /\ status = "Self" /\ pc = "done"
    /\ Len(snake) >= 3
    /\ grown = FALSE

\* C16: a tick that ends the run (wall or self collision) and a press of q
\* end it with the success result; a failed read of an event ends it at once
\* with an error, the game as it was, and no step follows.
C16_RunResults ==
    /\ [][(Tick /\ status' # "Running") =>
            status' \in {"Wall", "Self"} /\ run_result' = "Ok"]_vars
    /\ [][QuitKey => run_result' = "Ok"]_vars
    /\ [][ReadError =>
            /\ run_result' = "Err"
            /\ pc' = "done"
            /\ UNCHANGED game]_vars
    /\ [][run_result = "Err" => UNCHANGED vars]_vars

\* C16 witness: the read of an event failed in a drain that had already
\* applied a turn, with a tick pending.
C16_Witness ==
    /\ status = "ReadError" /\ pc = "done"
    /\ eaten >= 1
    /\ snake_direction # tick_direction

\* C17: at every render the apple is a cell of the board and no cell of the
\* snake, the head included, is the apple's cell.
C17_AppleOffSnakeAtRender ==
    AtRender =>
        /\ OnBoard(apple_position)
        /\ \A i \in 1..Len(snake) : snake[i] # apple_position

\* C17 witness: a render after a tick and a consumption in the same
\* iteration, the new apple lying on the cell the tick removed from the tail.
C17_Witness ==
    /\ AtRender
    /\ grown = TRUE
    /\ Len(snake) >= 3
    /\ popped = apple_position

\* C18: at every due tick of a snake of two or more cells the candidate head
\* (head plus heading vector) is not the second cell of the snake, and a
\* snake of exactly two cells does not end the run by a self collision.
C18_NeverOntoNeck ==
    [][(Tick /\ Len(snake) >= 2) =>
            /\ Plus(snake[1], get_vec2(snake_direction)) # snake[2]
            /\ Len(snake) = 2 => status' # "Self"]_vars

\* C18 witness: a snake of two cells has just ticked in a heading other than
\* that of the tick before, so a turn was accepted in between.
C18_Witness ==
    /\ JustTicked
    /\ Len(snake) = 2
    /\ snake[1] = Plus(snake[2], get_vec2(tick_direction))
    /\ snake[2] # Plus(popped, get_vec2(tick_direction))

\* C19: at the start of every loop iteration of a running game the snake has
\* one cell more than apples were consumed and the move interval is
\* max(50, 200 - 10 * (length - 1)); the snake gets longer at most once
\* between two ticks.
C19_LengthScoreInterval ==
    /\ [](IterationStart =>
            /\ Len(snake) = 1 + eaten
            /\ snake_move_time = Max(50, 200 - 10 * (Len(snake) - 1)))
    /\ [][Len(snake') > Len(snake) =>
            /\ grown = FALSE
            /\ Len(snake') = Len(snake) + 1
            /\ status' = "Running" => eaten' = eaten + 1]_vars

\* C19 witness: an iteration starts right after the seventeenth consumption,
\* past the length at which the interval reached its floor.
C19_Witness ==
    /\ IterationStart
    /\ grown = TRUE
    /\ Len(snake) = 18
    /\ snake_move_time = 50

\* C20: if from some point on the heading is never changed by a key press,
\* the loop going round and ticks being due again and again, the run
\* eventually stops.
C20_StopsWithoutKeys ==
    <>[][snake_direction' = snake_direction]_vars => <>(status # "Running")

\* C20 witness: the snake ran straight on past the length at which the
\* steering stopped, growing on the way, and ended at the wall.
C20_Witness ==
    /\ status = "Wall" /\ pc = "done"
    /\ Len(snake) > MaxKeyLen
    /\ grown = TRUE

====
